---- MODULE Spec2Model ----
(***************************************************************************)
(* mutt-maildirs: model of src/main.rs.                                    *)
(*                                                                         *)
(* A path (std::path::PathBuf) is the sequence of its components; PathBuf  *)
(* equality and ordering are component-wise, so the sequence is the value. *)
(* The string given with --base is a sequence of tokens ("~", "/" and one  *)
(* token per component), which expand_path slices and PathBuf parses.      *)
(* The directory tree below the base is fs: a function from the relative   *)
(* path of every entry (<<>> is the base itself) to the kind of the entry: *)
(*   "dir"     a directory that can be read                                *)
(*   "denied"  a directory whose read_dir fails (permission / I/O error)   *)
(*   "file"    anything that is not a directory                            *)
(*   "missing" (the base only) nothing exists at the base path             *)
(* Entries stored below a "denied" directory exist but cannot be listed.   *)
(***************************************************************************)
EXTENDS Integers, Sequences, FiniteSets, TLC

VARIABLES
    base_arg,       \* main: matches.value_of("base"), a token sequence
    home,           \* env::home_dir(): {} is None, {p} is Some(p)
    fs,             \* the directory tree under the base (see above)
    initial,        \* main: Vec<PathBuf> of --initial
    excluded,       \* main: Vec<PathBuf> of --exclude
    pc,             \* position of the invocation
    fatal,          \* which panic! ended the invocation ("none" if none did)
    base,           \* list_maildirs: the expanded base
    started,        \* walkdir IntoIter: start has been taken
    stack,          \* walkdir IntoIter: stack_list of open directory lists
    errors,         \* number of Err items dropped by filter_map(Result::ok)
    dirs,           \* list_maildirs: the vector under collection (line 96-103)
    all,            \* list_maildirs: the returned vector
    stdout,         \* the lines written to standard output by this invocation
    run,            \* 1: first invocation, 2: a second one on the same tree
    first,          \* what the first invocation returned
    first_dirs      \* the order in which the first invocation found the maildirs

vars == <<base_arg, home, fs, initial, excluded, pc, fatal, base, started,
          stack, errors, dirs, all, stdout, run, first, first_dirs>>

inputs == <<base_arg, home, fs, initial, excluded>>

----------------------------------------------------------------------------
(* Bounds of the model. *)

MaxEntries == 4     \* entries in the tree below the base
MaxInitial == 2     \* length of the --initial list
MaxExcluded == 1    \* length of the --exclude list

\* The entries a tree may hold, relative to the base.
Universe ==
    { <<"A">>, <<"B">>, <<"A", "cur">>, <<"B", "cur">>,
      <<"A", "B">>, <<"A", "B", "cur">> }

\* The paths the --initial and --exclude lists are drawn from.
ArgPaths == { <<"A">>, <<"B">> }

\* The --base strings: "/cur" and "~/m".
BaseArgs == { <<"/", "cur">>, <<"~", "/", "m">> }

\* The values of env::home_dir(): None, Some("/h").
Homes == { {}, { <<"h">> } }

----------------------------------------------------------------------------
(* Sequences and paths. *)

Range(s) == { s[i] : i \in 1..Len(s) }

Front(s) == SubSeq(s, 1, Len(s) - 1)

Last(s) == s[Len(s)]

SeqsUpTo(S, n) == UNION { [1..k -> S] : k \in 0..n }

\* str::starts_with
StartsWith(s, prefix) ==
    /\ Len(prefix) <= Len(s)
    /\ SubSeq(s, 1, Len(prefix)) = prefix

\* Every file name of the model, in the byte order of its spelling.
NameOrder == <<"A", "B", "cur", "h", "m">>

NameRank(n) == CHOOSE i \in 1..Len(NameOrder) : NameOrder[i] = n

\* Ord for Path: lexicographic over the components.
RECURSIVE PathLess(_, _)
PathLess(a, b) ==
    IF a = <<>> THEN b # <<>>
    ELSE IF b = <<>> THEN FALSE
    ELSE IF a[1] = b[1] THEN PathLess(Tail(a), Tail(b))
    ELSE NameRank(a[1]) < NameRank(b[1])

----------------------------------------------------------------------------
(* expand_path *)

TILDE == <<"~">>

TILDE_SLASH == <<"~", "/">>

\* PathBuf::from on a token string: the components between the separators.
PathFrom(str) == SelectSeq(str, LAMBDA t : t # "/")

IsAbsolute(str) == str # <<>> /\ str[1] = "/"

\* PathBuf::join: an absolute argument replaces the receiver.
Join(p, str) == IF IsAbsolute(str) THEN PathFrom(str) ELSE p \o PathFrom(str)

\* [ok |-> FALSE] is the panic of line 38.
expand_path(path, homedir) ==
    LET cut1 == IF StartsWith(path, TILDE) THEN Len(TILDE) ELSE 0
        cut_len == IF StartsWith(path, TILDE_SLASH) THEN Len(TILDE_SLASH) ELSE cut1
    IN  IF cut_len = 0 THEN [ok |-> TRUE, path |-> PathFrom(path)]
        ELSE IF homedir = {} THEN [ok |-> FALSE, path |-> <<>>]
        ELSE LET h == CHOOSE p \in homedir : TRUE
                 pathtmp == SubSeq(path, cut_len + 1, Len(path))
             IN  [ok |-> TRUE, path |-> Join(h, pathtmp)]

----------------------------------------------------------------------------
(* The walk's predicates and maildir_path. An entry e is the relative path *)
(* of the entry; its DirEntry::path() is base \o e.                        *)

EntryPath(e) == base \o e

\* Mutant of is_dir: every entry passes for a directory.
is_dir_any_entry(e) == e \in DOMAIN fs

\* Path::is_dir on the entry's path
is_dir(e) == fs[e] \in {"dir", "denied"}

\* DirEntry::file_name: the last component, or the whole path if it has none
file_name(path) == IF path = <<>> THEN "/" ELSE Last(path)

is_cur(e) == file_name(EntryPath(e)) = "cur"

\* Mutant of is_excluded: the exclusion list is ignored.
is_excluded_never(entry, excl) == entry \in Range(excl) /\ entry \notin Range(excl)

is_excluded(entry, excl) == entry \in Range(excl)

\* Mutant of is_initial: no maildir is taken for an initial one.
is_initial_never(maildir, init) == maildir \in Range(init) /\ maildir \notin Range(init)

is_initial(maildir, init) == maildir \in Range(init)

\* tag "ok" with the relative path, or the panic taken
maildir_path(b, path) ==
    IF path = <<>> THEN [tag |-> "no_parent", path |-> <<>>]
    ELSE LET parent == Front(path)
         IN  IF StartsWith(parent, b)
             THEN [tag |-> "ok", path |-> SubSeq(parent, Len(b) + 1, Len(parent))]
             ELSE [tag |-> "strip_prefix", path |-> <<>>]

----------------------------------------------------------------------------
(* walkdir's iterator *)

\* Mutant of ReadDir: in a directory that holds a "cur" only the "cur" is
\* listed, so the walk stops descending at a mailbox.
ReadDirStopAtMarker(e) ==
    LET children == { c \in DOMAIN fs : c # <<>> /\ Front(c) = e }
    IN  IF e \o <<"cur">> \in children THEN { e \o <<"cur">> } ELSE children

\* The entries read_dir lists in directory e.
ReadDir(e) == { c \in DOMAIN fs : c # <<>> /\ Front(c) = e }

\* IntoIter::push: the list of an opened directory, or its error.
OpenDir(e) ==
    IF fs[e] = "denied" THEN [err |-> TRUE, ents |-> {}]
    ELSE [err |-> FALSE, ents |-> ReadDir(e)]

\* IntoIter::handle_entry: a directory is pushed before it is yielded.
HandleEntry(stk, e) ==
    IF fs[e] \in {"dir", "denied"} THEN Append(stk, OpenDir(e)) ELSE stk

\* IntoIter::next: lists that are exhausted are popped.
RECURSIVE PopExhausted(_)
PopExhausted(stk) ==
    IF stk = <<>> THEN stk
    ELSE IF ~Last(stk).err /\ Last(stk).ents = {} THEN PopExhausted(Front(stk))
    ELSE stk

\* Mutant of AfterError: the first error ends the walk.
AfterErrorAbort(stk) == SubSeq(stk, 1, 0)

\* DirList::next on a list that failed to open: the error is taken, and the
\* list is exhausted from then on.
AfterError(stk) == [stk EXCEPT ![Len(stk)] = [err |-> FALSE, ents |-> {}]]

\* filter_entry(is_dir): an entry failing the predicate is dropped, and not
\* descended into.
FilterEntry(stk, e) ==
    IF is_dir(e) THEN stk
    ELSE IF fs[e] \in {"dir", "denied"} THEN Front(stk) ELSE stk

\* Lines 98-103 applied to the entry e the walk yields, stk being the stack
\* after handle_entry.
Yield(e, stk) ==
    /\ stack' = FilterEntry(stk, e)
    /\ errors' = errors
    /\ IF is_dir(e) /\ is_cur(e)
       THEN LET m == maildir_path(base, EntryPath(e))
            IN  IF m.tag # "ok"
                THEN /\ pc' = "panic"
                     /\ fatal' = m.tag
                     /\ dirs' = dirs
                ELSE /\ pc' = pc
                     /\ fatal' = fatal
                     /\ dirs' = IF is_excluded(m.path, excluded)
                                THEN dirs
                                ELSE Append(dirs, m.path)
       ELSE /\ pc' = pc
            /\ fatal' = fatal
            /\ dirs' = dirs

----------------------------------------------------------------------------
(* Lines 105-141 as functions of the collected vector. *)

FoundInitial(ds, init) == SelectSeq(ds, LAMBDA d : is_initial(d, init))

NotInitial(ds, init) == SelectSeq(ds, LAMBDA d : ~is_initial(d, init))

\* Mutant of InitialOrder: the initial maildirs stay in the order found.
InitialOrderAsFound(init, found_initial) == found_initial

InitialOrder(init, found_initial) ==
    SelectSeq(init, LAMBDA p : \E i \in 1..Len(found_initial) : found_initial[i] = p)

RECURSIVE Insert(_, _)
Insert(sorted, x) ==
    IF sorted = <<>> THEN <<x>>
    ELSE IF PathLess(x, sorted[1]) THEN <<x>> \o sorted
    ELSE <<sorted[1]>> \o Insert(Tail(sorted), x)

\* Mutant of SortPaths: the vector is left as collected.
SortPathsOmitted(s) == s

RECURSIVE SortPaths(_)
SortPaths(s) ==
    IF s = <<>> THEN <<>>
    ELSE Insert(SortPaths(Front(s)), Last(s))

----------------------------------------------------------------------------
(* main's output line: "+'<path>'" for each path, joined by " ". *)

RECURSIVE Display(_)
Display(p) ==
    IF Len(p) <= 1 THEN p
    ELSE <<p[1], "/">> \o Display(Tail(p))

Format(m) == <<"+'">> \o Display(m) \o <<"'">>

RECURSIVE OutputLine(_)
OutputLine(ms) ==
    IF ms = <<>> THEN <<>>
    ELSE IF Len(ms) = 1 THEN Format(ms[1])
    ELSE Format(ms[1]) \o <<" ">> \o OutputLine(Tail(ms))

----------------------------------------------------------------------------
(* The trees and the initial states. *)

PrefixClosed(S) == \A p \in S : Len(p) > 1 => Front(p) \in S

Shapes ==
    { S \in SUBSET Universe : Cardinality(S) <= MaxEntries /\ PrefixClosed(S) }

WellFormed(f) ==
    /\ \A p \in DOMAIN f \ {<<>>} :
          /\ f[p] # "missing"
          /\ f[Front(p)] \in {"dir", "denied"}
    /\ f[<<>>] = "missing" => DOMAIN f = {<<>>}

Trees ==
    UNION { { f \in [S \cup {<<>>} -> {"dir", "denied", "file", "missing"}] :
                WellFormed(f) } : S \in Shapes }

Init ==
    /\ base_arg \in BaseArgs
    /\ home \in Homes
    /\ fs \in Trees
    /\ initial \in SeqsUpTo(ArgPaths, MaxInitial)
    /\ excluded \in SeqsUpTo(ArgPaths, MaxExcluded)
    /\ pc = "start"
    /\ fatal = "none"
    /\ base = <<>>
    /\ started = FALSE
    /\ stack = <<>>
    /\ errors = 0
    /\ dirs = <<>>
    /\ all = <<>>
    /\ stdout = <<>>
    /\ run = 1
    /\ first = <<>>
    /\ first_dirs = <<>>

----------------------------------------------------------------------------
(* The steps of an invocation. *)

\* list_maildirs, line 86
ExpandBase ==
    /\ pc = "start"
    /\ LET r == expand_path(base_arg, home)
       IN  IF r.ok
           THEN /\ base' = r.path
                /\ pc' = "walk"
                /\ fatal' = fatal
           ELSE /\ base' = base
                /\ pc' = "panic"
                /\ fatal' = "home"
    /\ UNCHANGED <<inputs, started, stack, errors, dirs, all, stdout, run, first, first_dirs>>

\* One item of the iterator of lines 96-103, pulled by collect.
WalkNext ==
    /\ pc = "walk"
    /\ \/ /\ ~started
          /\ fs[<<>>] = "missing"
          /\ started' = TRUE
          /\ errors' = errors + 1
          /\ UNCHANGED <<stack, dirs, pc, fatal>>
       \/ /\ ~started
          /\ fs[<<>>] # "missing"
          /\ started' = TRUE
          /\ Yield(<<>>, HandleEntry(stack, <<>>))
       \/ /\ started
          /\ LET stk == PopExhausted(stack)
             IN  /\ stk # <<>>
                 /\ Last(stk).err
                 /\ stack' = AfterError(stk)
                 /\ errors' = errors + 1
          /\ UNCHANGED <<started, dirs, pc, fatal>>
       \/ /\ started
          /\ LET stk == PopExhausted(stack)
             IN  /\ stk # <<>>
                 /\ ~Last(stk).err
                 /\ \E e \in Last(stk).ents :
                       Yield(e, HandleEntry(
                                  [stk EXCEPT ![Len(stk)].ents = @ \ {e}], e))
          /\ UNCHANGED started
       \/ /\ started
          /\ PopExhausted(stack) = <<>>
          /\ stack' = <<>>
          /\ pc' = "order"
          /\ UNCHANGED <<started, errors, dirs, fatal>>
    /\ UNCHANGED <<inputs, base, all, stdout, run, first, first_dirs>>

\* list_maildirs, lines 105-141
OrderMaildirs ==
    /\ pc = "order"
    /\ LET found_initial == FoundInitial(dirs, initial)
           maildirs == NotInitial(dirs, initial)
           initial_order == InitialOrder(initial, found_initial)
       IN  all' = initial_order \o SortPaths(maildirs)
    /\ pc' = "print"
    /\ UNCHANGED <<inputs, fatal, base, started, stack, errors, dirs, stdout,
                   run, first, first_dirs>>

\* Mutant of PrintOutput: the maildirs found so far are printed while the walk
\* is still running.
PrintOutputWhileWalking ==
    /\ pc = "walk"
    /\ stdout = <<>>
    /\ stdout' = Append(stdout, OutputLine(dirs))
    /\ UNCHANGED <<inputs, pc, fatal, base, started, stack, errors, dirs, all,
                   run, first, first_dirs>>

\* main, lines 197-203
PrintOutput ==
    /\ pc = "print"
    /\ stdout' = Append(stdout, OutputLine(all))
    /\ pc' = "done"
    /\ UNCHANGED <<inputs, fatal, base, started, stack, errors, dirs, all,
                   run, first, first_dirs>>

\* The program is run a second time with the same arguments on the same tree.
Rerun ==
    /\ pc = "done"
    /\ run = 1
    /\ run' = 2
    /\ first' = all
    /\ first_dirs' = dirs
    /\ pc' = "start"
    /\ base' = <<>>
    /\ started' = FALSE
    /\ stack' = <<>>
    /\ errors' = 0
    /\ dirs' = <<>>
    /\ all' = <<>>
    /\ stdout' = <<>>
    /\ UNCHANGED <<inputs, fatal>>

Next == ExpandBase \/ WalkNext \/ OrderMaildirs \/ PrintOutput \/ Rerun

Spec == Init /\ [][Next]_vars

----------------------------------------------------------------------------
(* What the tree holds, stated without the walk. *)

\* list_maildirs has returned its vector.
Returned == pc \in {"print", "done"}

\* Every directory on the way from the base down to p can be read.
Accessible(p) == \A k \in 0..(Len(p) - 1) : fs[SubSeq(p, 1, k)] = "dir"

\* The mailboxes a walk can find: the readable directories, reached through
\* readable directories, that hold a directory named "cur".
Mailboxes ==
    { p \in DOMAIN fs :
        /\ fs[p] = "dir"
        /\ Accessible(p)
        /\ p \o <<"cur">> \in DOMAIN fs
        /\ fs[p \o <<"cur">>] \in {"dir", "denied"} }

\* The mailboxes that are not excluded.
Discovered == Mailboxes \ Range(excluded)

\* The entries of the priority list that are discovered mailboxes, in its order.
PriorityPrefix == SelectSeq(initial, LAMBDA p : p \in Discovered)

\* The strictly ascending sequence of the elements of S.
Ascending(S) ==
    CHOOSE s \in [1..Cardinality(S) -> S] :
        /\ Range(s) = S
        /\ \A i \in 1..(Len(s) - 1) : PathLess(s[i], s[i + 1])

ExpectedOutput == PriorityPrefix \o Ascending(Discovered \ Range(initial))

----------------------------------------------------------------------------
(* The claims. *)

\* C1: the set of paths list_maildirs returns is the set of relative paths of
\* the directories under the base that hold a directory named "cur", minus the
\* excluded paths: a "cur" that is not a directory does not count, a priority
\* entry that is no discovered mailbox is left out, and every discovered
\* mailbox that is not excluded is in the output.
C1_OutputIsTheMailboxes == Returned => Range(all) = Mailboxes \ Range(excluded)

C1_Witness ==
    /\ pc = "done"
    /\ all = << <<"A">> >>
    /\ initial = << <<"B">> >>
    /\ <<"B", "cur">> \in DOMAIN fs
    /\ fs[<<"B", "cur">>] = "file"

\* C2: the output begins with the entries of the priority list that are
\* discovered, non-excluded mailboxes, in the order of the priority list, and
\* no element after that prefix is an entry of the priority list; with no
\* discovered mailbox the output is empty.
C2_PriorityPrefixFirst ==
    Returned =>
        LET k == Len(PriorityPrefix)
        IN  /\ Len(all) >= k
            /\ SubSeq(all, 1, k) = PriorityPrefix
            /\ \A i \in (k + 1)..Len(all) : all[i] \notin Range(initial)
            /\ Discovered = {} => all = <<>>

C2_Witness ==
    /\ pc = "done"
    /\ initial = << <<"B">>, <<"A">> >>
    /\ dirs = << <<"A">>, <<"B">> >>
    /\ all = << <<"B">>, <<"A">> >>

\* C3: the output holds no path twice, also when the priority list names the
\* same discovered mailbox twice.
C3_NoDuplicates ==
    Returned => \A i, j \in 1..Len(all) : i # j => all[i] # all[j]

\* C4: no element of the output equals an entry of the exclusion list, also
\* when the entry is in the priority list as well.
C4_NoExcludedOutput ==
    Returned => \A i \in 1..Len(all) : all[i] \notin Range(excluded)

C4_Witness ==
    /\ pc = "done"
    /\ excluded = << <<"A">> >>
    /\ <<"A">> \in Range(initial)
    /\ <<"A">> \in Mailboxes
    /\ all = << <<"B">> >>

\* C5: the part of the output after the priority prefix is strictly
\* ascending in lexicographic order, whatever the order of discovery.
C5_RemainderAscending ==
    Returned =>
        \A i \in (Len(PriorityPrefix) + 1)..(Len(all) - 1) :
            PathLess(all[i], all[i + 1])

C5_Witness ==
    /\ pc = "done"
    /\ initial = <<>>
    /\ dirs = << <<"B">>, <<"A">> >>
    /\ all = << <<"A">>, <<"B">> >>

\* C6: a second run on the same tree with the same lists returns the same
\* sequence as the first, also when the two walks visit the directories in
\* different orders.
C6_SameOutputOnRerun == (run = 2 /\ Returned) => all = first

C6_Witness ==
    /\ run = 2
    /\ pc = "done"
    /\ dirs # first_dirs
    /\ Len(all) = 2
    /\ all = first

\* C7: a mailbox nested under another mailbox is discovered: when a mailbox
\* and a mailbox below it both exist and neither is excluded, both are in the
\* output, as distinct entries.
C7_NestedMailboxesFound ==
    Returned =>
        \A p, c \in Discovered :
            (p # c /\ StartsWith(c, p)) =>
                \E i, j \in 1..Len(all) : i # j /\ all[i] = p /\ all[j] = c

C7_Witness ==
    /\ pc = "done"
    /\ <<"A">> \in Range(all)
    /\ <<"A", "B">> \in Range(all)

\* C8: maildir_path never reaches one of its two panics during a walk rooted
\* at the base path, whatever the base path.
C8_NoFatalBranch == fatal \notin {"no_parent", "strip_prefix"}

\* C9: an error on a directory that cannot be read is not fatal: the run
\* does not panic, and it returns the non-excluded mailboxes found outside
\* the unreadable subtree, in the usual order.
C9_ErrorsAreSkipped ==
    errors > 0 =>
        /\ pc # "panic"
        /\ Returned => all = ExpectedOutput

C9_Witness ==
    /\ pc = "done"
    /\ errors = 1
    /\ fs[<<>>] = "dir"
    /\ <<"A", "cur">> \in DOMAIN fs
    /\ fs[<<"A">>] = "denied"
    /\ all = << <<"B">> >>

\* C10: a panic leaves nothing written, and what is written is the one line
\* of the complete ordered list, written after list_maildirs returned.
C10_NoPartialOutput ==
    /\ pc = "panic" => stdout = <<>>
    /\ stdout # <<>> => (pc = "done" /\ stdout = << OutputLine(ExpectedOutput) >>)

C10_Witness ==
    /\ pc = "panic"
    /\ fatal = "home"
    /\ run = 1
    /\ stdout = <<>>

====
